---- MODULE Spec2Model ----
(***************************************************************************)
(* Read-state ledger of signal/src/main.rs (mod read_sync) and the         *)
(* commands that use it.  The ledger is one SQLite table, read_sync, with  *)
(* primary key (sender_aci, timestamp) and a read_at column.  A process    *)
(* opens a connection, runs ledger operations on it and exits.  Batch      *)
(* operations run inside one rusqlite transaction: a Transaction that is   *)
(* dropped without a successful commit rolls back.                         *)
(***************************************************************************)
EXTENDS Integers, Sequences, FiniteSets, Bags, TLC

VARIABLES
    schema,     \* whether table read_sync exists in read_sync.db
    created,    \* how many times CREATE TABLE actually created the table
    table,      \* committed rows of read_sync, a bag of rows
    pc,         \* per connection: "closed", "ready", "loop", "cmd"
    tx,         \* per connection: the open transaction and its working rows
    call,       \* per connection: the ledger call in progress, or the last one
    idx,        \* per connection: position of the batch loop in its slice
    count,      \* per connection: the local variable count of the batch call
    ret,        \* per connection: what the last call returned
    last,       \* per connection: rusqlite's result for the last statement
    before,     \* per connection: the committed rows when its writing call started
    cmd,        \* per process: the locals of its cmd_mark_read, if it runs one
    res,        \* the last chat id a command parsed, and what the parse gave
    lock,       \* the connection that holds the write lock of the file, or 0
    rcv         \* per process: the locals of its cmd_receive, if it runs one

vars ==
    <<schema, created, table, pc, tx, call, idx, count, ret, last, before, cmd,
      res, lock, rcv>>

----------------------------------------------------------------------------
(* Bounds of the model *)

\* longest timestamps slice handed to mark_sender_read
MaxTimestamps == 3
\* longest reads slice handed to process_sync_reads
MaxReads == 2
\* the system clock yields seconds 1..MaxTime
MaxTime == 2
\* width in bits of the message timestamp (u64 in the program, scaled down)
TsBits == 3
\* most chat ids on one mark-read command line
MaxChats == 1
\* most stored messages of one thread
MaxMessages == 2
\* longest chat id of one repeated character given to a command
MaxIdLen == 66
\* most items the message stream of one cmd_receive yields
MaxItems == 2
\* most records of the ledger while timestamps of the whole u64 range are marked
MaxRecords == 2

\* the processes that can run at once, each with one connection
Procs == {1, 2}
\* the connection of a process that runs alone
Conns == {1}
Senders == {"a", "b"}
\* Option<T>: None, or Some(v)
None == <<>>
Some(v) == <<v>>
Unwrap(o) == o[1]
OptionOf(S) == {None} \cup {Some(v) : v \in S}
\* u64 message timestamps: one below and one at 2^(TsBits-1), where the cast wraps
Timestamps == {1, 2 ^ (TsBits - 1)}
Times == 1..MaxTime
\* every u64 timestamp, at width TsBits
U64 == 0..(2 ^ TsBits - 1)

SeqsUpTo(S, n) == UNION {[1..k -> S] : k \in 0..n}

\* the account of the local device, manager.whoami().aci
my_uuid == "me"

\* a stored Content: the sender, and the body with its Option timestamp
Contents ==
    [sender : Senders \cup {my_uuid},
     body : {"DataMessage", "Other"},
     timestamp : OptionOf(Timestamps)]

\* strings are sequences of one-character strings
Rep(n, ch) == [i \in 1..n |-> ch]
Uuid1 ==
    Rep(8, "3") \o <<"-">> \o Rep(4, "b") \o <<"-">> \o Rep(4, "4")
        \o <<"-">> \o Rep(4, "A") \o <<"-">> \o Rep(12, "e")
Hex64 == Rep(32, "0") \o Rep(32, "F")
Hex62 == Rep(62, "a")
NotAnId == <<"n", "o", "t", "-", "a", "-", "v", "a", "l", "i", "d", "-", "i", "d">>

\* the chat ids given on the command line
ChatIds == {Uuid1, Hex64, Hex62, NotAnId}

Braced1 == <<"{">> \o Uuid1 \o <<"}">>
Urn1 == <<"u", "r", "n", ":", "u", "u", "i", "d", ":">> \o Uuid1
\* 36 characters with a hyphen out of place
Uuid35 == Rep(9, "3") \o Rep(4, "b") \o <<"-">> \o Rep(4, "4")
              \o <<"-">> \o Rep(4, "A") \o <<"-">> \o Rep(12, "e")
\* 64 characters, one of them not a hex digit
Hex63g == Rep(63, "c") \o <<"g">>

\* the chat ids a command line can carry: every length of a hex digit and of
\* another character up to MaxIdLen, and the forms of a UUID
AnyChatIds ==
    ChatIds \cup {Braced1, Urn1, Uuid35, Hex63g}
        \cup {Rep(n, ch) : n \in 0..MaxIdLen, ch \in {"0", "F", "g"}}

\* sync_message::Read: both fields are Option
Reads == [sender_aci : OptionOf(Senders), timestamp : OptionOf(Timestamps)]

----------------------------------------------------------------------------
(* SQL statements and casts *)

\* faulty variant: a saturating conversion, as i64::try_from(..).unwrap_or(MAX)
AsI64Saturating(timestamp) ==
    IF timestamp >= 2 ^ (TsBits - 1) THEN 2 ^ (TsBits - 1) - 1 ELSE timestamp

\* `timestamp as i64`: two's complement reinterpretation at width TsBits
AsI64(timestamp) ==
    IF timestamp >= 2 ^ (TsBits - 1) THEN timestamp - 2 ^ TsBits ELSE timestamp

Row(sender_aci, timestamp, read_at) ==
    [sender_aci |-> sender_aci, timestamp |-> timestamp, read_at |-> read_at]

\* faulty variant: the table is declared without its primary key
ConflictsNever(rows, row) == FALSE

\* PRIMARY KEY (sender_aci, timestamp): a row conflicts with a stored row of
\* the same key
Conflicts(rows, row) ==
    \E r \in BagToSet(rows) :
        r.sender_aci = row.sender_aci /\ r.timestamp = row.timestamp

\* faulty variant: INSERT OR REPLACE, the stored row of the key is overwritten
InsertOrReplace(rows, row) ==
    LET kept == {r \in BagToSet(rows) :
                    ~(r.sender_aci = row.sender_aci /\ r.timestamp = row.timestamp)}
    IN SetToBag(kept) (+) SetToBag({row})

\* INSERT OR IGNORE INTO read_sync ... VALUES (?1, ?2, ?3)
InsertOrIgnore(rows, row) ==
    IF Conflicts(rows, row) THEN rows ELSE rows (+) SetToBag({row})

\* faulty variant: DROP TABLE, then CREATE TABLE, at every open
CreateTableAfresh(exists, rows, n) ==
    [schema |-> TRUE, table |-> EmptyBag, created |-> n + 1]

\* CREATE TABLE IF NOT EXISTS read_sync (...): the file's schema flag, its
\* rows and the creation counter after the statement
CreateTableIfNotExists(exists, rows, n) ==
    IF exists
    THEN [schema |-> TRUE, table |-> rows, created |-> n]
    ELSE [schema |-> TRUE, table |-> EmptyBag, created |-> n + 1]

\* faulty variant: the WHERE clause leaves out sender_aci
QueryRowAnySender(rows, sender_aci, timestamp, ok) ==
    IF ~ok THEN "SqliteFailure"
    ELSE IF \E r \in BagToSet(rows) : r.timestamp = timestamp
         THEN "Ok"
         ELSE "QueryReturnedNoRows"

\* SELECT 1 FROM read_sync WHERE sender_aci = ?1 AND timestamp = ?2, through
\* query_row: Ok on a row, QueryReturnedNoRows on none, SqliteFailure when
\* the statement fails
QueryRow(rows, sender_aci, timestamp, ok) ==
    IF ~ok THEN "SqliteFailure"
    ELSE IF \E r \in BagToSet(rows) :
                r.sender_aci = sender_aci /\ r.timestamp = timestamp
         THEN "Ok"
         ELSE "QueryReturnedNoRows"

\* faulty variant: the statements ran outside a transaction, nothing is undone
RollbackKeepsWrites(committed, working) == working

\* Drop of a Transaction that was not committed: the working rows are
\* discarded and the committed rows stay
Rollback(committed, working) == committed

\* COMMIT: the working rows become the committed rows
Commit(committed, working) == working

----------------------------------------------------------------------------
(* Chat ids *)

HexLower == <<"0", "1", "2", "3", "4", "5", "6", "7", "8", "9",
              "a", "b", "c", "d", "e", "f">>
HexUpper == <<"0", "1", "2", "3", "4", "5", "6", "7", "8", "9",
              "A", "B", "C", "D", "E", "F">>

IsHexDigit(ch) == \E i \in 1..16 : HexLower[i] = ch \/ HexUpper[i] = ch
HexVal(ch) == (CHOOSE i \in 1..16 : HexLower[i] = ch \/ HexUpper[i] = ch) - 1
AllHex(s) == \A i \in 1..Len(s) : IsHexDigit(s[i])

\* the bytes two hex digits each spell
BytesOf(s) ==
    [i \in 1..(Len(s) \div 2) |-> 16 * HexVal(s[2 * i - 1]) + HexVal(s[2 * i])]

\* hex::decode: Ok(bytes) for an even number of hex digits, Err otherwise
HexDecode(s) ==
    IF Len(s) % 2 = 0 /\ AllHex(s) THEN Some(BytesOf(s)) ELSE None

\* the 8-4-4-4-12 form: 36 characters, hyphens at 9, 14, 19 and 24
IsHyphenated(s) ==
    /\ Len(s) = 36
    /\ \A i \in 1..36 :
          IF i \in {9, 14, 19, 24} THEN s[i] = "-" ELSE IsHexDigit(s[i])

Dehyphen(s) == SelectSeq(s, LAMBDA ch : ch # "-")

UrnPrefix == <<"u", "r", "n", ":", "u", "u", "i", "d", ":">>

\* chat_id.parse::<Uuid>(): the simple, hyphenated, braced and urn forms
ParseUuid(s) ==
    IF Len(s) = 32 /\ AllHex(s) THEN Some(BytesOf(s))
    ELSE IF IsHyphenated(s) THEN Some(BytesOf(Dehyphen(s)))
    ELSE IF Len(s) = 38 /\ s[1] = "{" /\ s[38] = "}"
                /\ IsHyphenated(SubSeq(s, 2, 37))
         THEN Some(BytesOf(Dehyphen(SubSeq(s, 2, 37))))
    ELSE IF Len(s) = 45 /\ SubSeq(s, 1, 9) = UrnPrefix
                /\ IsHyphenated(SubSeq(s, 10, 45))
         THEN Some(BytesOf(Dehyphen(SubSeq(s, 10, 45))))
    ELSE None

\* what a parse of a chat id gives: Thread::Contact or Thread::Group with its
\* id, or no thread with the format string of the message and its argument
Thread(kind, id) == [kind |-> kind, id |-> id, msg |-> "", arg |-> None]
NoThread(kind, msg, arg) == [kind |-> kind, id |-> <<>>, msg |-> msg, arg |-> arg]

KeyLengthMsg == "Group master key must be 32 bytes"
InvalidMsg == "Invalid chat_id: must be a UUID or 64-character hex string"
InvalidWarning == "Invalid chat_id: {}"

\* faulty variant: the hex decoding is tried before the UUID parse
ParseChatIdHexFirst(chat_id) ==
    IF HexDecode(chat_id) # None
    THEN IF Len(Unwrap(HexDecode(chat_id))) = 32
         THEN Thread("Group", Unwrap(HexDecode(chat_id)))
         ELSE NoThread("Err", KeyLengthMsg, None)
    ELSE IF ParseUuid(chat_id) # None
    THEN Thread("Contact", Unwrap(ParseUuid(chat_id)))
    ELSE NoThread("Invalid", InvalidWarning, Some(chat_id))

\* the chat_id parse of cmd_mark_read: a Thread, the error of a key that is
\* not 32 bytes (returned with `?`), or the warning of an invalid id, after
\* which the command goes on to the next chat id
ParseChatId(chat_id) ==
    IF ParseUuid(chat_id) # None
    THEN Thread("Contact", Unwrap(ParseUuid(chat_id)))
    ELSE IF HexDecode(chat_id) # None
    THEN IF Len(Unwrap(HexDecode(chat_id))) = 32
         THEN Thread("Group", Unwrap(HexDecode(chat_id)))
         ELSE NoThread("Err", KeyLengthMsg, None)
    ELSE NoThread("Invalid", InvalidWarning, Some(chat_id))

\* faulty variant: a key of the wrong length gets the message of an invalid id
ParseChatIdOneError(chat_id) ==
    IF ParseUuid(chat_id) # None
    THEN Thread("Contact", Unwrap(ParseUuid(chat_id)))
    ELSE IF HexDecode(chat_id) # None /\ Len(Unwrap(HexDecode(chat_id))) = 32
    THEN Thread("Group", Unwrap(HexDecode(chat_id)))
    ELSE NoThread("Err", InvalidMsg, None)

\* the chat_id parse of cmd_messages: a Thread, the error of a key that is
\* not 32 bytes, or the error of an invalid id; both errors end the command
ParseChatIdMessages(chat_id) ==
    IF ParseUuid(chat_id) # None
    THEN Thread("Contact", Unwrap(ParseUuid(chat_id)))
    ELSE IF HexDecode(chat_id) # None
    THEN IF Len(Unwrap(HexDecode(chat_id))) = 32
         THEN Thread("Group", Unwrap(HexDecode(chat_id)))
         ELSE NoThread("Err", KeyLengthMsg, None)
    ELSE NoThread("Err", InvalidMsg, None)

----------------------------------------------------------------------------
(* Results *)

Ok(n) == [kind |-> "Ok", count |-> n, flag |-> FALSE]
Err == [kind |-> "Err", count |-> 0, flag |-> FALSE]
Bool(b) == [kind |-> "bool", count |-> 0, flag |-> b]
NoRet == [kind |-> "none", count |-> 0, flag |-> FALSE]

NoTx == [open |-> FALSE, wrote |-> FALSE, rows |-> EmptyBag]
NoCall == [op |-> "none", args |-> <<>>]
\* the locals of cmd_mark_read; and for the properties the committed rows
\* when the command started and the (sender, timestamp) of the incoming
\* messages its scans have met
NoCmd ==
    [at |-> "none", chat_ids |-> <<>>, ci |-> 0, to_mark |-> <<>>, scanned |-> 0,
     mi |-> 0,
     total_messages |-> 0, chats_marked |-> 0, result |-> "none",
     before |-> EmptyBag, incoming |-> {}]

\* the locals of cmd_receive: the position in the command, the items taken
\* from the stream, read_sync_count and received_messages; and for the
\* properties the keys that had a record when the command started and the
\* keys of the sync batches that committed since
NoRcv ==
    [at |-> "none", items |-> 0, read_sync_count |-> 0,
     received_messages |-> <<>>, result |-> "none",
     before |-> {}, synced |-> {}]

\* no chat id has been parsed yet
NoRes == [site |-> "none", chat_id |-> <<>>, out |-> NoThread("none", "", None)]

\* faulty variant: a connection reads the working rows of any transaction
ViewDirty(c) ==
    IF \E d \in Procs : tx[d].open /\ tx[d].wrote
    THEN tx[CHOOSE d \in Procs : tx[d].open /\ tx[d].wrote].rows
    ELSE table

\* the rows connection c sees: its transaction's working rows once it has
\* written, the committed rows otherwise
View(c) == IF tx[c].open /\ tx[c].wrote THEN tx[c].rows ELSE table

\* the call op on connection c has returned
Returned(c, op) == call[c].op = op /\ ret[c].kind # "none"

\* connection c is open and its process is between two ledger calls of its
\* own, the result of the last one taken
Idle(c) ==
    /\ pc[c] = "ready"
    /\ call[c].op = "none"
    /\ cmd[c].at = "none"
    /\ rcv[c].at = "none"

\* where a batch function returns to: into cmd_mark_read or cmd_receive when
\* that called it
ReturnPc(c) ==
    IF cmd[c].at = "none" /\ rcv[c].at = "none" THEN "ready" ELSE "cmd"

----------------------------------------------------------------------------
(* read_sync functions *)

\* faulty variant: the query's error is returned to the caller
is_read_propagating(rows, sender_aci, timestamp, ok) ==
    IF ok
    THEN Bool(QueryRow(rows, sender_aci, AsI64(timestamp), ok) = "Ok")
    ELSE Err

\* is_read: query_row(...).is_ok()
is_read(rows, sender_aci, timestamp, ok) ==
    Bool(QueryRow(rows, sender_aci, AsI64(timestamp), ok) = "Ok")

\* mark_as_read: the rows after the INSERT OR IGNORE, or the failure
mark_as_read(rows, sender_aci, timestamp, now, ok) ==
    IF ok
    THEN [err |-> FALSE,
          rows |-> InsertOrIgnore(rows, Row(sender_aci, AsI64(timestamp), now))]
    ELSE [err |-> TRUE, rows |-> rows]

\* `if let (Some(sender_aci), Some(timestamp)) = (&read.sender_aci, read.timestamp)`
HasBoth(read) == read.sender_aci # None /\ read.timestamp # None

\* faulty variant: count only the rows the statement inserted
NextCountInserted(n, inserted) == n + (IF inserted THEN 1 ELSE 0)

\* `count += 1` after a mark_as_read that returned Ok
NextCount(n, inserted) == n + 1

Init ==
    /\ schema = FALSE
    /\ created = 0
    /\ table = EmptyBag
    /\ pc = [c \in Procs |-> "closed"]
    /\ tx = [c \in Procs |-> NoTx]
    /\ call = [c \in Procs |-> NoCall]
    /\ idx = [c \in Procs |-> 0]
    /\ count = [c \in Procs |-> 0]
    /\ ret = [c \in Procs |-> NoRet]
    /\ last = [c \in Procs |-> "Ok"]
    /\ before = [c \in Procs |-> EmptyBag]
    /\ cmd = [c \in Procs |-> NoCmd]
    /\ res = NoRes
    /\ lock = 0
    /\ rcv = [c \in Procs |-> NoRcv]

\* open_read_sync_db, first statement: Connection::open(&path)?
open_read_sync_db(c) ==
    /\ pc[c] = "closed"
    /\ call' = [call EXCEPT ![c] = [op |-> "open_read_sync_db", args |-> <<>>]]
    /\ \E opened \in BOOLEAN :
        IF opened
        THEN /\ pc' = [pc EXCEPT ![c] = "opening"]
             /\ ret' = [ret EXCEPT ![c] = NoRet]
             /\ last' = [last EXCEPT ![c] = "Ok"]
        ELSE /\ ret' = [ret EXCEPT ![c] = Err]
             /\ last' = [last EXCEPT ![c] = "SqliteFailure"]
             /\ UNCHANGED pc
    /\ UNCHANGED <<schema, created, table, tx, idx, count, before, cmd, res, lock>>
    /\ UNCHANGED rcv

\* open_read_sync_db, second statement: conn.execute("CREATE TABLE IF NOT
\* EXISTS ...")?; Ok(conn).  Creating the table is a write, which fails
\* while another connection holds the write lock
open_create_table(c) ==
    /\ pc[c] = "opening"
    /\ \E executed \in (IF schema \/ lock = 0 THEN BOOLEAN ELSE {FALSE}) :
        LET db == CreateTableIfNotExists(schema, table, created) IN
        IF executed
        THEN /\ schema' = db.schema
             /\ table' = db.table
             /\ created' = db.created
             /\ pc' = [pc EXCEPT ![c] = "ready"]
             /\ ret' = [ret EXCEPT ![c] = Ok(0)]
             /\ last' = [last EXCEPT ![c] = "Ok"]
        ELSE /\ UNCHANGED <<schema, table, created>>
             /\ pc' = [pc EXCEPT ![c] = "closed"]
             /\ ret' = [ret EXCEPT ![c] = Err]
             /\ last' = [last EXCEPT ![c] = "SqliteFailure"]
    /\ UNCHANGED <<tx, call, idx, count, before, cmd, res, lock>>
    /\ UNCHANGED rcv

\* the process ends: its Connection is dropped
close(c) ==
    /\ pc[c] = "ready"
    /\ pc' = [pc EXCEPT ![c] = "closed"]
    /\ call' = [call EXCEPT ![c] = NoCall]
    /\ ret' = [ret EXCEPT ![c] = NoRet]
    /\ last' = [last EXCEPT ![c] = "Ok"]
    /\ idx' = [idx EXCEPT ![c] = 0]
    /\ count' = [count EXCEPT ![c] = 0]
    /\ before' = [before EXCEPT ![c] = EmptyBag]
    /\ cmd' = [cmd EXCEPT ![c] = NoCmd]
    /\ rcv' = [rcv EXCEPT ![c] = NoRcv]
    /\ UNCHANGED <<schema, created, table, tx>>
    /\ UNCHANGED res
    /\ UNCHANGED lock

\* the caller takes the result of the call that returned; the locals of the
\* call are gone
result_taken(c) ==
    /\ pc[c] = "ready"
    /\ call[c].op # "none"
    /\ cmd[c].at = "none"
    /\ rcv[c].at = "none"
    /\ call' = [call EXCEPT ![c] = NoCall]
    /\ ret' = [ret EXCEPT ![c] = NoRet]
    /\ last' = [last EXCEPT ![c] = "Ok"]
    /\ idx' = [idx EXCEPT ![c] = 0]
    /\ count' = [count EXCEPT ![c] = 0]
    /\ before' = [before EXCEPT ![c] = EmptyBag]
    /\ UNCHANGED <<schema, created, table, pc, tx, cmd>>
    /\ UNCHANGED res
    /\ UNCHANGED lock
    /\ UNCHANGED rcv

\* is_read(conn, sender_aci, timestamp), the timestamp one of T
is_read_of(c, T) ==
    /\ Idle(c)
    /\ \E sender_aci \in Senders, timestamp \in T, ok \in BOOLEAN :
        /\ call' = [call EXCEPT ![c] =
              [op |-> "is_read",
               args |-> [sender_aci |-> sender_aci, timestamp |-> timestamp]]]
        /\ ret' = [ret EXCEPT ![c] = is_read(View(c), sender_aci, timestamp, ok)]
        /\ last' = [last EXCEPT ![c] =
              QueryRow(View(c), sender_aci, AsI64(timestamp), ok)]
    /\ UNCHANGED <<schema, created, table, pc, tx, idx, count, before, cmd>>
    /\ UNCHANGED res
    /\ UNCHANGED lock
    /\ UNCHANGED rcv

\* is_read(conn, sender_aci, timestamp)
is_read_call(c) == is_read_of(c, Timestamps)

\* mark_as_read(conn, sender_aci, timestamp), the timestamp one of T, on a
\* connection outside any transaction: the statement commits by itself, or
\* fails and changes nothing; it fails while another connection holds the
\* write lock
mark_as_read_of(c, T) ==
    /\ Idle(c)
    /\ \E sender_aci \in Senders, timestamp \in T,
          now \in Times, ok \in (IF lock = 0 THEN BOOLEAN ELSE {FALSE}) :
        LET r == mark_as_read(table, sender_aci, timestamp, now, ok) IN
        /\ call' = [call EXCEPT ![c] =
              [op |-> "mark_as_read",
               args |-> [sender_aci |-> sender_aci, timestamp |-> timestamp]]]
        /\ table' = r.rows
        /\ ret' = [ret EXCEPT ![c] = IF r.err THEN Err ELSE Ok(0)]
        /\ last' = [last EXCEPT ![c] = IF r.err THEN "SqliteFailure" ELSE "Ok"]
    /\ before' = [before EXCEPT ![c] = table]
    /\ UNCHANGED <<schema, created, pc, tx, idx, count, cmd>>
    /\ UNCHANGED res
    /\ UNCHANGED lock
    /\ UNCHANGED rcv

\* mark_as_read(conn, sender_aci, timestamp)
mark_as_read_call(c) == mark_as_read_of(c, Timestamps)

\* is_read of any u64 timestamp
is_read_any(c) == is_read_of(c, U64)

\* mark_as_read of any u64 timestamp, while the ledger holds fewer than
\* MaxRecords records
mark_as_read_any(c) ==
    /\ BagCardinality(table) < MaxRecords
    /\ mark_as_read_of(c, U64)

\* faulty variant: DropBehavior::Ignore, the transaction stays open
DropIgnored(t) == t

\* Drop of a Transaction, after a commit or without one: no transaction is
\* open on the connection any more
Drop(t) == NoTx

\* `let tx = conn.transaction()?; let mut count = 0;` of either batch
\* function: BEGIN DEFERRED takes no lock, and fails inside a transaction
Begin(c, op, args) ==
    /\ call' = [call EXCEPT ![c] = [op |-> op, args |-> args]]
    /\ before' = [before EXCEPT ![c] = table]
    /\ idx' = [idx EXCEPT ![c] = 1]
    /\ count' = [count EXCEPT ![c] = 0]
    /\ \E ok \in (IF tx[c].open THEN {FALSE} ELSE BOOLEAN) :
        IF ok
        THEN /\ tx' = [tx EXCEPT ![c] = [open |-> TRUE, wrote |-> FALSE, rows |-> EmptyBag]]
             /\ pc' = [pc EXCEPT ![c] = "loop"]
             /\ ret' = [ret EXCEPT ![c] = NoRet]
             /\ last' = [last EXCEPT ![c] = "Ok"]
        ELSE /\ ret' = [ret EXCEPT ![c] = Err]
             /\ last' = [last EXCEPT ![c] = "SqliteFailure"]
             /\ UNCHANGED <<tx, pc>>
    /\ UNCHANGED <<schema, created, table, lock>>

\* process_sync_reads(conn, reads): entry
process_sync_reads_call(c) ==
    /\ Idle(c)
    /\ \E reads \in SeqsUpTo(Reads, MaxReads) :
        Begin(c, "process_sync_reads", [reads |-> reads])
    /\ UNCHANGED cmd
    /\ UNCHANGED res
    /\ UNCHANGED rcv

\* mark_sender_read(conn, sender_aci, timestamps): entry
mark_sender_read_call(c) ==
    /\ Idle(c)
    /\ \E sender_aci \in Senders, timestamps \in SeqsUpTo(Timestamps, MaxTimestamps) :
        Begin(c, "mark_sender_read",
              [sender_aci |-> sender_aci, timestamps |-> timestamps])
    /\ UNCHANGED cmd
    /\ UNCHANGED res
    /\ UNCHANGED rcv

\* the write lock after connection c's transaction has ended
Unlocked(c) == IF lock = c THEN 0 ELSE lock

\* `mark_as_read(&tx, ..)?; count += 1;` inside a transaction: the first
\* write takes the write lock, and fails while another connection holds it.
\* On Ok the working rows and count advance, on Err the `?` returns and the
\* dropped transaction rolls back
MarkInTx(c, sender_aci, timestamp) ==
    \E now \in Times, ok \in (IF lock \in {0, c} THEN BOOLEAN ELSE {FALSE}) :
        LET r == mark_as_read(View(c), sender_aci, timestamp, now, ok) IN
        IF r.err
        THEN /\ table' = Rollback(table, View(c))
             /\ tx' = [tx EXCEPT ![c] = Drop(tx[c])]
             /\ lock' = Unlocked(c)
             /\ pc' = [pc EXCEPT ![c] = ReturnPc(c)]
             /\ ret' = [ret EXCEPT ![c] = Err]
             /\ last' = [last EXCEPT ![c] = "SqliteFailure"]
             /\ UNCHANGED <<idx, count>>
        ELSE /\ tx' = [tx EXCEPT ![c] = [open |-> TRUE, wrote |-> TRUE, rows |-> r.rows]]
             /\ count' = [count EXCEPT ![c] = NextCount(count[c], r.rows # View(c))]
             /\ idx' = [idx EXCEPT ![c] = idx[c] + 1]
             /\ last' = [last EXCEPT ![c] = "Ok"]
             /\ lock' = c
             /\ UNCHANGED <<table, pc, ret>>

\* faulty variant: an entry that lacks a field is counted all the same
SkipReadCounted(c) ==
    /\ idx' = [idx EXCEPT ![c] = idx[c] + 1]
    /\ count' = [count EXCEPT ![c] = count[c] + 1]
    /\ UNCHANGED <<table, tx, pc, ret, last, lock>>

\* the `if let` of process_sync_reads does not match: the entry is passed over
SkipRead(c) ==
    /\ idx' = [idx EXCEPT ![c] = idx[c] + 1]
    /\ UNCHANGED <<table, tx, pc, ret, last, count, lock>>

\* one iteration of `for read in reads` of process_sync_reads
process_sync_reads_loop(c) ==
    /\ pc[c] = "loop"
    /\ call[c].op = "process_sync_reads"
    /\ idx[c] <= Len(call[c].args.reads)
    /\ LET read == call[c].args.reads[idx[c]] IN
        IF HasBoth(read)
        THEN MarkInTx(c, Unwrap(read.sender_aci), Unwrap(read.timestamp))
        ELSE SkipRead(c)
    /\ UNCHANGED <<schema, created, call, before, cmd>>
    /\ UNCHANGED res
    /\ UNCHANGED rcv

\* one iteration of `for &ts in timestamps` of mark_sender_read
mark_sender_read_loop(c) ==
    /\ pc[c] = "loop"
    /\ call[c].op = "mark_sender_read"
    /\ idx[c] <= Len(call[c].args.timestamps)
    /\ MarkInTx(c, call[c].args.sender_aci, call[c].args.timestamps[idx[c]])
    /\ UNCHANGED <<schema, created, call, before, cmd>>
    /\ UNCHANGED res
    /\ UNCHANGED rcv

\* the slice the batch call in progress iterates over
Slice(c) ==
    IF call[c].op = "process_sync_reads"
    THEN call[c].args.reads
    ELSE call[c].args.timestamps

\* `tx.commit()?; Ok(count)`: a commit that fails drops the transaction,
\* which rolls back
tx_commit(c) ==
    /\ pc[c] = "loop"
    /\ idx[c] > Len(Slice(c))
    /\ \E ok \in BOOLEAN :
        IF ok
        THEN /\ table' = Commit(table, View(c))
             /\ ret' = [ret EXCEPT ![c] = Ok(count[c])]
             /\ last' = [last EXCEPT ![c] = "Ok"]
        ELSE /\ table' = Rollback(table, View(c))
             /\ ret' = [ret EXCEPT ![c] = Err]
             /\ last' = [last EXCEPT ![c] = "SqliteFailure"]
    /\ tx' = [tx EXCEPT ![c] = Drop(tx[c])]
    /\ lock' = Unlocked(c)
    /\ pc' = [pc EXCEPT ![c] = ReturnPc(c)]
    /\ UNCHANGED <<schema, created, call, idx, count, before, cmd>>
    /\ UNCHANGED res
    /\ UNCHANGED rcv

----------------------------------------------------------------------------
(* cmd_mark_read *)

\* a message of the thread that someone else sent, with its timestamp
IsIncoming(content) ==
    /\ content.body = "DataMessage"
    /\ content.timestamp # None
    /\ content.sender \in Senders

\* faulty variant: the messages of the local account are marked as well
UnreadOrOwn(content, rows, ok) ==
    /\ content.body = "DataMessage"
    /\ content.timestamp # None
    /\ ~is_read(rows, content.sender, Unwrap(content.timestamp), ok).flag

\* the test of the scan loop: an incoming DataMessage with a timestamp that
\* is_read does not report as read
Unread(content, rows, ok) ==
    /\ content.body = "DataMessage"
    /\ content.sender # my_uuid
    /\ content.timestamp # None
    /\ ~is_read(rows, content.sender, Unwrap(content.timestamp), ok).flag

\* `to_mark.push((sender_aci, ts))` when the tests pass
Scan(to_mark, content, rows, ok) ==
    IF Unread(content, rows, ok)
    THEN Append(to_mark, <<content.sender, Unwrap(content.timestamp)>>)
    ELSE to_mark

\* cmd_mark_read returns Err through a `?`; the process is about to exit
CmdFails(c) ==
    /\ cmd' = [cmd EXCEPT ![c].at = "done", ![c].result = "Err"]
    /\ pc' = [pc EXCEPT ![c] = "ready"]

\* cmd_mark_read(chat_ids), after the manager is loaded and the ledger open
cmd_mark_read_start(c) ==
    /\ pc[c] = "ready"
    /\ cmd[c].at = "none"
    /\ rcv[c].at = "none"
    /\ Returned(c, "open_read_sync_db")
    /\ \E chat_ids \in SeqsUpTo(ChatIds, MaxChats) :
        cmd' = [cmd EXCEPT ![c] =
                   [NoCmd EXCEPT !.at = "chat", !.chat_ids = chat_ids, !.ci = 1,
                                 !.before = table]]
    /\ pc' = [pc EXCEPT ![c] = "cmd"]
    /\ UNCHANGED <<schema, created, table, tx, call, idx, count, ret, last, before>>
    /\ UNCHANGED res
    /\ UNCHANGED lock
    /\ UNCHANGED rcv

\* `for chat_id in &chat_ids`: the parse of the chat id, then
\* store.messages(&thread, ..) and an empty to_mark
cmd_mark_read_chat(c) ==
    /\ pc[c] = "cmd"
    /\ cmd[c].at = "chat"
    /\ cmd[c].ci <= Len(cmd[c].chat_ids)
    /\ LET thread == ParseChatId(cmd[c].chat_ids[cmd[c].ci]) IN
        IF thread.kind = "Invalid"
        THEN /\ cmd' = [cmd EXCEPT ![c].ci = cmd[c].ci + 1]
             /\ UNCHANGED pc
        ELSE IF thread.kind = "Err"
        THEN CmdFails(c)
        ELSE \E loaded \in BOOLEAN :
                IF ~loaded
                THEN CmdFails(c)
                ELSE /\ cmd' = [cmd EXCEPT ![c].to_mark = <<>>,
                                           ![c].scanned = 0,
                                           ![c].at = "scan"]
                     /\ UNCHANGED pc
    /\ UNCHANGED <<schema, created, table, tx, call, idx, count, ret, last, before>>
    /\ UNCHANGED res
    /\ UNCHANGED lock
    /\ UNCHANGED rcv

\* one iteration of `for content in messages_iter.flatten()`: the store
\* yields a message, is_read is asked about it
cmd_mark_read_scan(c) ==
    /\ pc[c] = "cmd"
    /\ cmd[c].at = "scan"
    /\ cmd[c].scanned < MaxMessages
    /\ \E content \in Contents, ok \in BOOLEAN :
        cmd' = [cmd EXCEPT
                  ![c].to_mark = Scan(cmd[c].to_mark, content, View(c), ok),
                  ![c].scanned = cmd[c].scanned + 1,
                  ![c].incoming =
                      IF IsIncoming(content)
                      THEN cmd[c].incoming
                               \cup {<<content.sender, Unwrap(content.timestamp)>>}
                      ELSE cmd[c].incoming]
    /\ UNCHANGED <<schema, created, table, pc, tx, call, idx, count, ret, last, before>>
    /\ UNCHANGED res
    /\ UNCHANGED lock
    /\ UNCHANGED rcv

\* the iterator of the thread's messages is exhausted
cmd_mark_read_scanned(c) ==
    /\ pc[c] = "cmd"
    /\ cmd[c].at = "scan"
    /\ cmd' = [cmd EXCEPT ![c].mi = 1, ![c].at = "mark"]
    /\ UNCHANGED <<schema, created, table, pc, tx, call, idx, count, ret, last, before>>
    /\ UNCHANGED res
    /\ UNCHANGED lock
    /\ UNCHANGED rcv

\* `for (sender_aci, ts) in &to_mark`: mark_sender_read(&mut read_db,
\* sender_aci, &[*ts]) is entered
cmd_mark_read_mark(c) ==
    /\ pc[c] = "cmd"
    /\ cmd[c].at = "mark"
    /\ cmd[c].mi <= Len(cmd[c].to_mark)
    /\ Begin(c, "mark_sender_read",
             [sender_aci |-> cmd[c].to_mark[cmd[c].mi][1],
              timestamps |-> <<cmd[c].to_mark[cmd[c].mi][2]>>])
    /\ cmd' = [cmd EXCEPT ![c].at = "marked"]
    /\ UNCHANGED res
    /\ UNCHANGED rcv

\* that mark_sender_read has returned: `?` ends the command on Err
cmd_mark_read_marked(c) ==
    /\ pc[c] = "cmd"
    /\ cmd[c].at = "marked"
    /\ IF ret[c].kind = "Err"
       THEN CmdFails(c)
       ELSE /\ cmd' = [cmd EXCEPT ![c].mi = cmd[c].mi + 1, ![c].at = "mark"]
            /\ UNCHANGED pc
    /\ UNCHANGED <<schema, created, table, tx, call, idx, count, ret, last, before>>
    /\ UNCHANGED res
    /\ UNCHANGED lock
    /\ UNCHANGED rcv

\* `total_messages += to_mark.len() as i64; chats_marked += 1;`
cmd_mark_read_chat_done(c) ==
    /\ pc[c] = "cmd"
    /\ cmd[c].at = "mark"
    /\ cmd[c].mi > Len(cmd[c].to_mark)
    /\ cmd' = [cmd EXCEPT
          ![c].total_messages = cmd[c].total_messages + Len(cmd[c].to_mark),
          ![c].chats_marked = cmd[c].chats_marked + 1,
          ![c].ci = cmd[c].ci + 1,
          ![c].at = "chat"]
    /\ UNCHANGED <<schema, created, table, pc, tx, call, idx, count, ret, last, before>>
    /\ UNCHANGED res
    /\ UNCHANGED lock
    /\ UNCHANGED rcv

\* the MarkReadOutput is printed and the command returns Ok
cmd_mark_read_output(c) ==
    /\ pc[c] = "cmd"
    /\ cmd[c].at = "chat"
    /\ cmd[c].ci > Len(cmd[c].chat_ids)
    /\ cmd' = [cmd EXCEPT ![c].at = "done", ![c].result = "Ok"]
    /\ pc' = [pc EXCEPT ![c] = "ready"]
    /\ UNCHANGED <<schema, created, table, tx, call, idx, count, ret, last, before>>
    /\ UNCHANGED res
    /\ UNCHANGED lock
    /\ UNCHANGED rcv

----------------------------------------------------------------------------
(* cmd_receive *)

\* `dm.timestamp.unwrap_or(0)`
UnwrapOr(o, d) == IF o = None THEN d ELSE Unwrap(o)

\* faulty variant: is_read is written as a constant, like is_outgoing
MessageOutputUnread(sender_aci, ts, is_read_flag) ==
    [sender |-> sender_aci, id |-> ts, is_outgoing |-> FALSE, is_read |-> FALSE]

\* the MessageOutput pushed for a DataMessage: id and sender, and the flags
MessageOutput(sender_aci, ts, is_read_flag) ==
    [sender |-> sender_aci, id |-> ts, is_outgoing |-> FALSE,
     is_read |-> is_read_flag]

\* faulty variant: every entry of the batch is counted, whatever the call
\* returned
AfterSyncCountsEntries(n, r, reads) == n + Len(reads)

\* `match process_sync_reads(..) { Ok(count) => read_sync_count += count,
\* Err(e) => warn!(..) }`
AfterSync(n, r, reads) == IF r.kind = "Ok" THEN n + r.count ELSE n

\* the keys process_sync_reads stores for a batch: those of the entries
\* that carry both fields
SyncedKeys(reads) ==
    {<<Unwrap(reads[i].sender_aci), AsI64(Unwrap(reads[i].timestamp))>> :
        i \in {j \in 1..Len(reads) : HasBoth(reads[j])}}

\* the keys that have a record in rows
StoredKeys(rows) == {<<r.sender_aci, r.timestamp>> : r \in BagToSet(rows)}

\* cmd_receive, after the manager is loaded and the ledger open:
\* manager.receive_messages() gives the stream, or fails
cmd_receive_start(c) ==
    /\ pc[c] = "ready"
    /\ cmd[c].at = "none"
    /\ rcv[c].at = "none"
    /\ Returned(c, "open_read_sync_db")
    /\ \E streaming \in BOOLEAN :
        IF streaming
        THEN /\ rcv' = [rcv EXCEPT ![c] =
                          [NoRcv EXCEPT !.at = "loop", !.before = StoredKeys(table)]]
             /\ pc' = [pc EXCEPT ![c] = "cmd"]
        ELSE /\ rcv' = [rcv EXCEPT ![c] =
                          [NoRcv EXCEPT !.at = "done", !.result = "Err"]]
             /\ UNCHANGED pc
    /\ UNCHANGED <<schema, created, table, tx, call, idx, count, ret, last,
                   before, cmd, res, lock>>

\* the stream yields Received::Contacts, or a Content whose body is neither
\* a DataMessage nor a SynchronizeMessage
cmd_receive_skip(c) ==
    /\ pc[c] = "cmd"
    /\ rcv[c].at = "loop"
    /\ rcv[c].items < MaxItems
    /\ rcv' = [rcv EXCEPT ![c].items = rcv[c].items + 1]
    /\ UNCHANGED <<schema, created, table, pc, tx, call, idx, count, ret, last,
                   before, cmd, res, lock>>

\* the stream yields a Content with a DataMessage: is_read is asked about
\* it and its MessageOutput is pushed
cmd_receive_data(c) ==
    /\ pc[c] = "cmd"
    /\ rcv[c].at = "loop"
    /\ rcv[c].items < MaxItems
    /\ \E sender_aci \in Senders, timestamp \in OptionOf(Timestamps),
          ok \in BOOLEAN :
        LET ts == UnwrapOr(timestamp, 0) IN
        /\ rcv' = [rcv EXCEPT
              ![c].received_messages =
                  Append(rcv[c].received_messages,
                         MessageOutput(sender_aci, ts,
                                       is_read(View(c), sender_aci, ts, ok).flag)),
              ![c].items = rcv[c].items + 1]
        /\ last' = [last EXCEPT ![c] = QueryRow(View(c), sender_aci, AsI64(ts), ok)]
    /\ UNCHANGED <<schema, created, table, pc, tx, call, idx, count, ret,
                   before, cmd, res, lock>>

\* the stream yields a Content with a SynchronizeMessage: when sm.read is
\* not empty, process_sync_reads(&mut read_db, &sm.read) is entered
cmd_receive_sync(c) ==
    /\ pc[c] = "cmd"
    /\ rcv[c].at = "loop"
    /\ rcv[c].items < MaxItems
    /\ \E reads \in SeqsUpTo(Reads, MaxReads) :
        IF reads = <<>>
        THEN /\ rcv' = [rcv EXCEPT ![c].items = rcv[c].items + 1]
             /\ UNCHANGED <<schema, created, table, pc, tx, call, idx, count,
                            ret, last, before, lock>>
        ELSE /\ Begin(c, "process_sync_reads", [reads |-> reads])
             /\ rcv' = [rcv EXCEPT ![c].at = "sync"]
    /\ UNCHANGED <<cmd, res>>

\* that process_sync_reads has returned: Ok(count) is added to
\* read_sync_count, Err is logged, and the loop goes on
cmd_receive_synced(c) ==
    /\ pc[c] = "cmd"
    /\ rcv[c].at = "sync"
    /\ rcv' = [rcv EXCEPT
          ![c].read_sync_count =
              AfterSync(rcv[c].read_sync_count, ret[c], call[c].args.reads),
          ![c].synced =
              IF ret[c].kind = "Ok"
              THEN rcv[c].synced \cup SyncedKeys(call[c].args.reads)
              ELSE rcv[c].synced,
          ![c].items = rcv[c].items + 1,
          ![c].at = "loop"]
    /\ call' = [call EXCEPT ![c] = NoCall]
    /\ ret' = [ret EXCEPT ![c] = NoRet]
    /\ last' = [last EXCEPT ![c] = "Ok"]
    /\ idx' = [idx EXCEPT ![c] = 0]
    /\ count' = [count EXCEPT ![c] = 0]
    /\ before' = [before EXCEPT ![c] = EmptyBag]
    /\ UNCHANGED <<schema, created, table, pc, tx, cmd, res, lock>>

\* the stream yields Received::QueueEmpty (break) or ends
cmd_receive_queue_empty(c) ==
    /\ pc[c] = "cmd"
    /\ rcv[c].at = "loop"
    /\ rcv' = [rcv EXCEPT ![c].at = "output"]
    /\ UNCHANGED <<schema, created, table, pc, tx, call, idx, count, ret, last,
                   before, cmd, res, lock>>

\* the counts are logged and received_messages is printed
cmd_receive_output(c) ==
    /\ pc[c] = "cmd"
    /\ rcv[c].at = "output"
    /\ \E printed \in BOOLEAN :
        rcv' = [rcv EXCEPT ![c].at = "done",
                           ![c].result = IF printed THEN "Ok" ELSE "Err"]
    /\ pc' = [pc EXCEPT ![c] = "ready"]
    /\ UNCHANGED <<schema, created, table, tx, call, idx, count, ret, last,
                   before, cmd, res, lock>>

Next ==
    \E c \in Conns :
        \/ open_read_sync_db(c)
        \/ open_create_table(c)
        \/ close(c)
        \/ result_taken(c)
        \/ is_read_call(c)
        \/ mark_as_read_call(c)
        \/ process_sync_reads_call(c)
        \/ mark_sender_read_call(c)
        \/ process_sync_reads_loop(c)
        \/ mark_sender_read_loop(c)
        \/ tx_commit(c)

Spec == Init /\ [][Next]_vars

\* processes that run cmd_mark_read, after processes that wrote single records
NextMarkRead ==
    \E c \in Conns :
        \/ open_read_sync_db(c)
        \/ open_create_table(c)
        \/ close(c)
        \/ result_taken(c)
        \/ mark_as_read_call(c)
        \/ cmd_mark_read_start(c)
        \/ cmd_mark_read_chat(c)
        \/ cmd_mark_read_scan(c)
        \/ cmd_mark_read_scanned(c)
        \/ cmd_mark_read_mark(c)
        \/ cmd_mark_read_marked(c)
        \/ cmd_mark_read_chat_done(c)
        \/ cmd_mark_read_output(c)
        \/ mark_sender_read_loop(c)
        \/ tx_commit(c)

SpecMarkRead == Init /\ [][NextMarkRead]_vars

\* processes that run cmd_receive, one after the other
NextReceive ==
    \E c \in Conns :
        \/ open_read_sync_db(c)
        \/ open_create_table(c)
        \/ close(c)
        \/ cmd_receive_start(c)
        \/ cmd_receive_skip(c)
        \/ cmd_receive_data(c)
        \/ cmd_receive_sync(c)
        \/ cmd_receive_synced(c)
        \/ cmd_receive_queue_empty(c)
        \/ cmd_receive_output(c)
        \/ process_sync_reads_loop(c)
        \/ tx_commit(c)

SpecReceive == Init /\ [][NextReceive]_vars

\* processes that mark and look up timestamps of the whole u64 range
NextCast ==
    \E c \in Conns :
        \/ open_read_sync_db(c)
        \/ open_create_table(c)
        \/ close(c)
        \/ result_taken(c)
        \/ mark_as_read_any(c)
        \/ is_read_any(c)

SpecCast == Init /\ [][NextCast]_vars

\* two processes at once on one read_sync.db: both open the ledger and
\* exit, process 1 marks batches of one sender as read, process 2 asks is_read
NextTwo ==
    \/ \E c \in Procs :
          \/ open_read_sync_db(c)
          \/ open_create_table(c)
          \/ close(c)
          \/ result_taken(c)
    \/ \E c \in Conns :
          \/ mark_sender_read_call(c)
          \/ mark_sender_read_loop(c)
          \/ tx_commit(c)
    \/ \E c \in Procs \ Conns :
          is_read_call(c)

SpecTwo == Init /\ [][NextTwo]_vars

----------------------------------------------------------------------------
(* The parse of a chat id, at its two call sites *)

\* cmd_messages(chat_id, ..): `let thread = if let Ok(uuid) = ... else ...`
cmd_messages_parse ==
    \E chat_id \in AnyChatIds :
        /\ res' = [site |-> "cmd_messages", chat_id |-> chat_id,
                   out |-> ParseChatIdMessages(chat_id)]
        /\ UNCHANGED <<schema, created, table, pc, tx, call, idx, count, ret,
                       last, before, cmd, lock, rcv>>

\* cmd_mark_read(chat_ids): the same parse inside `for chat_id in &chat_ids`
cmd_mark_read_parse ==
    \E chat_id \in AnyChatIds :
        /\ res' = [site |-> "cmd_mark_read", chat_id |-> chat_id,
                   out |-> ParseChatId(chat_id)]
        /\ UNCHANGED <<schema, created, table, pc, tx, call, idx, count, ret,
                       last, before, cmd, lock, rcv>>

NextResolve ==
    \/ cmd_messages_parse
    \/ cmd_mark_read_parse

SpecResolve == Init /\ [][NextResolve]_vars

----------------------------------------------------------------------------
(* Vocabulary of the properties *)

BatchOps == {"mark_sender_read", "process_sync_reads"}

SameKey(r1, r2) == r1.sender_aci = r2.sender_aci /\ r1.timestamp = r2.timestamp

\* the stored keys of a bag of rows
Keys(rows) == {<<r.sender_aci, r.timestamp>> : r \in BagToSet(rows)}

\* the stored key of a message
KeyOf(sender_aci, timestamp) == <<sender_aci, AsI64(timestamp)>>

\* how many records rows holds for a key
Records(rows, key) ==
    LET S == {r \in BagToSet(rows) : <<r.sender_aci, r.timestamp>> = key}
    IN IF S = {} THEN 0
       ELSE IF Cardinality(S) = 1 /\ \A r \in S : CopiesIn(r, rows) = 1 THEN 1
       ELSE 2

\* what a later is_read on healthy storage answers
ReadsAsRead(rows, sender_aci, timestamp) ==
    is_read(rows, sender_aci, timestamp, TRUE).flag

\* a sync entry that carries both fields
Complete(read) == Len(read.sender_aci) = 1 /\ Len(read.timestamp) = 1

CompleteAt(reads) == {i \in 1..Len(reads) : Complete(reads[i])}

\* the stored keys of the complete entries of a sync batch
BatchKeys(reads) ==
    {KeyOf(reads[i].sender_aci[1], reads[i].timestamp[1]) : i \in CompleteAt(reads)}

----------------------------------------------------------------------------
(* C1: atomic batch.  When mark_sender_read or process_sync_reads returns  *)
(* an error, whether an insert or the commit failed, the committed rows    *)
(* are those of before the call, and is_read answers for every key what   *)
(* it answered before the call: no entry of the batch became visible.      *)
C1_AtomicBatch ==
    \A c \in Conns :
        (call[c].op \in BatchOps /\ ret[c].kind = "Err") =>
            /\ table = before[c]
            /\ \A s \in Senders, t \in Timestamps :
                  ReadsAsRead(table, s, t) <=> ReadsAsRead(before[c], s, t)

\* a batch of N >= 2 new entries fails at its Nth write, after N-1 writes
C1_Witness ==
    \E c \in Conns :
        /\ call[c].op = "process_sync_reads"
        /\ ret[c].kind = "Err"
        /\ before[c] = EmptyBag
        /\ Len(call[c].args.reads) >= 2
        /\ idx[c] = Len(call[c].args.reads)
        /\ count[c] = idx[c] - 1

(* C2: fail-safe read.  is_read always returns a boolean, never an error;  *)
(* it returns false when the key has no record and false when the query    *)
(* failed.                                                                 *)
C2_FailSafeRead ==
    \A c \in Conns :
        Returned(c, "is_read") =>
            /\ ret[c].kind = "bool"
            /\ ret[c].flag =>
                /\ last[c] = "Ok"
                /\ KeyOf(call[c].args.sender_aci, call[c].args.timestamp)
                       \in Keys(table)

\* the query fails on a key that has a record, and is_read answers false
C2_Witness ==
    \E c \in Conns :
        /\ Returned(c, "is_read")
        /\ last[c] = "SqliteFailure"
        /\ KeyOf(call[c].args.sender_aci, call[c].args.timestamp) \in Keys(table)
        /\ ret[c] = Bool(FALSE)

(* C3: idempotent insert.  After every successful mark_as_read of a key,   *)
(* the first as the second, the table holds exactly one record of the key  *)
(* and is_read of the key answers true.                                    *)
C3_IdempotentInsert ==
    \A c \in Conns :
        (Returned(c, "mark_as_read") /\ ret[c].kind = "Ok") =>
            /\ Records(table, KeyOf(call[c].args.sender_aci,
                                    call[c].args.timestamp)) = 1
            /\ ReadsAsRead(table, call[c].args.sender_aci, call[c].args.timestamp)

\* mark_as_read succeeded on a key that already had its record
C3_Witness ==
    \E c \in Conns :
        /\ Returned(c, "mark_as_read")
        /\ ret[c].kind = "Ok"
        /\ KeyOf(call[c].args.sender_aci, call[c].args.timestamp)
               \in Keys(before[c])

(* C4: count semantics.  A successful mark_sender_read returns the number  *)
(* of timestamps it was given, repeated and already read ones included.    *)
C4_CountSemantics ==
    \A c \in Conns :
        (Returned(c, "mark_sender_read") /\ ret[c].kind = "Ok") =>
            ret[c].count = Len(call[c].args.timestamps)

\* [t1, t2, t1] with t1 already read returned 3
C4_Witness ==
    \E c \in Conns :
        /\ Returned(c, "mark_sender_read")
        /\ Len(call[c].args.timestamps) = 3
        /\ call[c].args.timestamps[1] = call[c].args.timestamps[3]
        /\ call[c].args.timestamps[1] # call[c].args.timestamps[2]
        /\ KeyOf(call[c].args.sender_aci, call[c].args.timestamps[1])
               \in Keys(before[c])
        /\ ret[c] = Ok(3)

(* C5: skipped entries.  A successful process_sync_reads returns the       *)
(* number of entries that carry both fields, the records after it are      *)
(* those of before plus the keys of exactly those entries, and the call    *)
(* fails only when a statement failed, never for a missing field.          *)
C5_SkipsIncomplete ==
    \A c \in Conns :
        Returned(c, "process_sync_reads") =>
            /\ ret[c].kind = "Ok" =>
                /\ ret[c].count = Cardinality(CompleteAt(call[c].args.reads))
                /\ Keys(table) = Keys(before[c]) \cup BatchKeys(call[c].args.reads)
            /\ ret[c].kind = "Err" => last[c] = "SqliteFailure"

\* a batch with an entry that lacks a field and a complete, new entry
\* returned 1 and committed the record
C5_Witness ==
    \E c \in Conns :
        /\ Returned(c, "process_sync_reads")
        /\ ret[c] = Ok(1)
        /\ Len(call[c].args.reads) >= 2
        /\ \E i \in 1..Len(call[c].args.reads) :
              ~Complete(call[c].args.reads[i])
        /\ Keys(table) # Keys(before[c])

(* C6: round trip.  On a ledger without records, a successful              *)
(* process_sync_reads over complete entries of distinct senders returns    *)
(* the number of entries, and afterwards is_read is true for exactly the   *)
(* (sender, timestamp) pairs of the batch.                                 *)
C6_RoundTrip ==
    \A c \in Conns :
        LET reads == call[c].args.reads IN
        (/\ Returned(c, "process_sync_reads")
         /\ ret[c].kind = "Ok"
         /\ before[c] = EmptyBag
         /\ CompleteAt(reads) = 1..Len(reads)
         /\ \A i, j \in 1..Len(reads) :
               i # j => reads[i].sender_aci # reads[j].sender_aci)
        => /\ ret[c].count = Len(reads)
           /\ \A s \in Senders, t \in Timestamps :
                 ReadsAsRead(table, s, t)
                     <=> \E i \in 1..Len(reads) :
                            reads[i] = [sender_aci |-> Some(s), timestamp |-> Some(t)]

\* a batch of two entries of two senders returned 2 on an empty ledger
C6_Witness ==
    \E c \in Conns :
        LET reads == call[c].args.reads IN
        /\ Returned(c, "process_sync_reads")
        /\ ret[c] = Ok(2)
        /\ before[c] = EmptyBag
        /\ CompleteAt(reads) = 1..Len(reads)
        /\ Len(reads) = 2
        /\ reads[1].sender_aci # reads[2].sender_aci
        /\ reads[1].timestamp # reads[2].timestamp

(* C7: bulk mark-read as one unit.  When cmd_mark_read ends in an error,   *)
(* no record of that request is visible: the committed rows are those of   *)
(* when the command started.                                               *)
C7_BulkMarkReadAtomic ==
    \A c \in Conns :
        cmd[c].result = "Err" => table = cmd[c].before

(* C8: no update in place.  No step changes the read_at of a record that   *)
(* exists: the row of a key after the step is the row before it.           *)
C8_FirstWriteWins ==
    [][\A r \in BagToSet(table) : \A r2 \in BagToSet(table') :
          SameKey(r, r2) => r2.read_at = r.read_at]_vars

\* a successful mark_sender_read held a key that already had its record
C8_Witness ==
    \E c \in Conns :
        /\ Returned(c, "mark_sender_read")
        /\ ret[c].kind = "Ok"
        /\ ret[c].count >= 1
        /\ \E i \in 1..Len(call[c].args.timestamps) :
              KeyOf(call[c].args.sender_aci, call[c].args.timestamps[i])
                  \in Keys(before[c])

(* C9: no deletion.  No step, an open, a failed or a rolled-back call      *)
(* included, removes the record of a key.                                  *)
C9_NeverDeleted ==
    [][Keys(table) \subseteq Keys(table')]_vars

\* the ledger is opened again while it holds records
C9_Witness ==
    \E c \in Conns :
        /\ Returned(c, "open_read_sync_db")
        /\ ret[c].kind = "Ok"
        /\ table # EmptyBag

(* C10: uniqueness.  The committed rows, and the rows any transaction      *)
(* sees, hold at most one record per (sender_aci, timestamp).              *)
C10_UniqueKey ==
    /\ \A k \in Keys(table) : Records(table, k) = 1
    /\ \A c \in Conns : \A k \in Keys(View(c)) : Records(View(c), k) = 1

\* a batch that names one key twice committed, and two senders share a
\* timestamp in the table
C10_Witness ==
    \E c \in Conns :
        LET reads == call[c].args.reads IN
        /\ Returned(c, "process_sync_reads")
        /\ ret[c] = Ok(2)
        /\ Complete(reads[1])
        /\ reads[1] = reads[2]
        /\ \E r1, r2 \in BagToSet(table) :
              r1.sender_aci # r2.sender_aci /\ r1.timestamp = r2.timestamp

----------------------------------------------------------------------------
(* Properties of the chat id parse *)

HexDigits ==
    {"0", "1", "2", "3", "4", "5", "6", "7", "8", "9",
     "a", "b", "c", "d", "e", "f", "A", "B", "C", "D", "E", "F"}

\* the text of a UUID, in any form the parser takes
IsUuid(s) == ParseUuid(s) # None

\* the text of a 32-byte key: 64 hex digits
IsKeyText(s) == Len(s) = 64 /\ \A i \in 1..64 : s[i] \in HexDigits

\* not a UUID; an even number of hex digits, but not 64 of them
IsKeyOfWrongLength(s) ==
    /\ ~IsUuid(s)
    /\ Len(s) % 2 = 0
    /\ Len(s) # 64
    /\ \A i \in 1..Len(s) : s[i] \in HexDigits

\* not a UUID and not the hex of any bytes
IsNotHex(s) ==
    /\ ~IsUuid(s)
    /\ (Len(s) % 2 = 1 \/ \E i \in 1..Len(s) : s[i] \notin HexDigits)

IsThread(out) == out.kind \in {"Contact", "Group"}

\* what the parse at a call site gives
ParseAt(site, s) ==
    IF site = "cmd_messages" THEN ParseChatIdMessages(s) ELSE ParseChatId(s)

\* what a caller can tell apart: the kind of the outcome and its message
Outcome(out) == <<out.kind, out.msg>>

C12_WrongLengthDistinct ==
    (res.site # "none" /\ IsKeyOfWrongLength(res.chat_id)) =>
        /\ ~IsThread(res.out)
        /\ \A s \in AnyChatIds :
              IsNotHex(s) => Outcome(ParseAt(res.site, s)) # Outcome(res.out)

\* cmd_messages parsed the empty string, the hex of no bytes
C12_Witness ==
    /\ res.site = "cmd_messages"
    /\ res.chat_id = <<>>
    /\ res.out.kind = "Err"
    /\ \E s \in AnyChatIds : IsNotHex(s) /\ ParseAt(res.site, s).kind = "Err"

(* C13: the error of an id that is neither a UUID nor a 32-byte key        *)
(* carries the id.  When the parse of cmd_messages gives no thread, the    *)
(* argument of its error is the chat id it was given.                      *)
C13_ErrorCarriesId ==
    (res.site = "cmd_messages" /\ ~IsThread(res.out)) =>
        res.out.arg = Some(res.chat_id)

----------------------------------------------------------------------------
(* Properties of redelivery, of open and of concurrent use *)

(* C14: redelivery is a no-op that succeeds.  When process_sync_reads has  *)
(* returned from a batch whose every complete entry already had its record *)
(* when the call began, the committed rows, read_at included, are the rows *)
(* of that moment; the call fails only if a statement failed, and a call   *)
(* that succeeds counts every complete entry.                              *)
C14_RedeliveryNoOp ==
    \A c \in Conns :
        (/\ Returned(c, "process_sync_reads")
         /\ BatchKeys(call[c].args.reads) # {}
         /\ BatchKeys(call[c].args.reads) \subseteq Keys(before[c])) =>
            /\ table = before[c]
            /\ ret[c].kind = "Err" => last[c] = "SqliteFailure"
            /\ ret[c].kind = "Ok" =>
                  ret[c].count = Cardinality(CompleteAt(call[c].args.reads))

\* a batch of two complete entries, both already recorded, committed again
C14_Witness ==
    \E c \in Conns :
        /\ Returned(c, "process_sync_reads")
        /\ ret[c] = Ok(2)
        /\ Cardinality(BatchKeys(call[c].args.reads)) = 2
        /\ BatchKeys(call[c].args.reads) \subseteq Keys(before[c])

(* C18: a batch call releases its transaction on every exit path.  While   *)
(* no batch loop runs on a connection, and so whenever mark_sender_read or *)
(* process_sync_reads has returned a count, the error of an insert or the  *)
(* error of the commit, the connection has no open transaction and holds   *)
(* no write lock, so conn.transaction() of the next call can begin one.    *)
C18_TransactionReleased ==
    \A c \in Conns :
        /\ pc[c] # "loop" => (~tx[c].open /\ lock # c)
        /\ (call[c].op \in BatchOps /\ ret[c].kind # "none") =>
              (pc[c] # "loop" /\ tx[c] = NoTx)

\* a batch wrote inside its transaction and its commit failed
C18_Witness ==
    \E c \in Conns :
        /\ call[c].op \in BatchOps
        /\ ret[c].kind = "Err"
        /\ idx[c] > Len(Slice(c))
        /\ Len(Slice(c)) >= 1
        /\ count[c] >= 1
        /\ tx[c] = NoTx

\* connection c takes a step of open_read_sync_db
OpenStep(c) ==
    /\ pc[c] \in {"closed", "opening"}
    /\ <<pc[c], call[c], ret[c]>> # <<pc'[c], call'[c], ret'[c]>>

(* C15: open is idempotent, two opens interleaved included.  The table is  *)
(* created at most once over the life of the file, and no step of an open, *)
(* of either process, changes the committed rows: none is lost, none is    *)
(* duplicated, none gets another read_at.                                  *)
C15_OpenIdempotent ==
    /\ [](created <= 1)
    /\ [][(\E c \in Procs : OpenStep(c)) => table' = table]_vars

\* both processes are between Connection::open and CREATE TABLE on a ledger
\* that holds records
C15_Witness ==
    /\ \A c \in Procs : pc[c] = "opening"
    /\ table # EmptyBag
    /\ created = 1

\* is_read returns on connection c in this step
IsReadStep(c) ==
    /\ ret[c].kind = "none"
    /\ call'[c].op = "is_read"
    /\ ret'[c].kind = "bool"

(* C16: no stale reads across processes.  An is_read of one process        *)
(* answers from the rows committed at that moment: it never answers true   *)
(* for a key that only the open transaction of the other process holds,    *)
(* and it answers true for every committed key unless its query fails.     *)
C16_NoStaleRead ==
    [][\A c \in Procs :
          IsReadStep(c) =>
              LET key == KeyOf(call'[c].args.sender_aci, call'[c].args.timestamp)
              IN /\ ret'[c].flag => key \in Keys(table)
                 /\ (key \in Keys(table) /\ last'[c] # "SqliteFailure")
                        => ret'[c].flag]_vars

\* process 2 got true for a key that the batch of process 1, which has
\* just returned, added to the ledger
C16_Witness ==
    /\ Returned(2, "is_read")
    /\ ret[2] = Bool(TRUE)
    /\ Returned(1, "mark_sender_read")
    /\ ret[1].kind = "Ok"
    /\ KeyOf(call[2].args.sender_aci, call[2].args.timestamp)
           \in Keys(table) \ Keys(before[1])

----------------------------------------------------------------------------
(* Properties of cmd_receive *)

(* C17: the read-sync counter of the receive loop.  The step that takes    *)
(* the result of process_sync_reads adds the returned count when the call  *)
(* succeeded and nothing when it failed; a failed call has left the        *)
(* committed rows as they were when it began; either way the loop goes on  *)
(* with the next item; and no other step of the command changes the        *)
(* counter, which starts at 0.                                             *)
C17_SyncCounter ==
    [][\A c \in Conns :
          /\ (rcv[c].at = "sync" /\ rcv'[c] # rcv[c]) =>
                /\ rcv'[c].read_sync_count =
                       rcv[c].read_sync_count
                           + (IF ret[c].kind = "Ok" THEN ret[c].count ELSE 0)
                /\ ret[c].kind = "Err" => table = before[c]
                /\ rcv'[c].at = "loop"
                /\ rcv'[c].result = "none"
                /\ pc'[c] = "cmd"
          /\ (rcv[c].at = "none" /\ rcv'[c].at # "none") =>
                rcv'[c].read_sync_count = 0
          /\ (rcv[c].at \notin {"none", "sync"} /\ rcv'[c].at # "none") =>
                rcv'[c].read_sync_count = rcv[c].read_sync_count]_vars

\* a batch has failed after an earlier batch of the stream was counted
C17_Witness ==
    \E c \in Conns :
        /\ rcv[c].at = "sync"
        /\ pc[c] = "cmd"
        /\ ret[c].kind = "Err"
        /\ rcv[c].read_sync_count >= 1
        /\ rcv[c].items >= 1

(* C19: the is_read of a received message is the ledger at that moment.    *)
(* The flag pushed for a DataMessage is true only if the message's key had *)
(* a record before the command started or belongs to a sync batch that     *)
(* committed earlier in the stream, and it is true for every such key      *)
(* unless the lookup itself failed; no later step, a later sync batch      *)
(* included, changes a MessageOutput that was pushed.                      *)
C19_ReadAtProcessing ==
    [][\A c \in Conns :
          LET old == rcv[c].received_messages
              new == rcv'[c].received_messages
              known == rcv[c].before \cup rcv[c].synced
          IN rcv'[c].at # "none" =>
                /\ Len(new) >= Len(old)
                /\ \A i \in 1..Len(old) : new[i] = old[i]
                /\ Len(new) > Len(old) =>
                      LET m == new[Len(new)] IN
                      /\ m.is_read => KeyOf(m.sender, m.id) \in known
                      /\ (KeyOf(m.sender, m.id) \in known
                              /\ last'[c] # "SqliteFailure") => m.is_read]_vars

\* a message was reported as read on account of a batch earlier in the
\* same stream
C19_Witness ==
    \E c \in Conns :
        /\ Len(rcv[c].received_messages) = 1
        /\ rcv[c].received_messages[1].is_read
        /\ KeyOf(rcv[c].received_messages[1].sender,
                 rcv[c].received_messages[1].id)
               \in rcv[c].synced \ rcv[c].before

----------------------------------------------------------------------------
(* Properties of cmd_mark_read *)

\* the chat ids of the command line that give no thread
Unresolved == {chat_id \in ChatIds : ~IsThread(ParseChatId(chat_id))}

\* the keys that got their record since cmd_mark_read of process c started
MarkedBy(c) == Keys(table) \ Keys(cmd[c].before)

(* C20: cmd_mark_read marks only incoming messages of the chats it could   *)
(* resolve.  Every record added since the command started has the key      *)
(* (sender, timestamp) of a message that a scan of a resolved chat met,    *)
(* that carries a timestamp and that someone other than the local account  *)
(* sent; so no record has the local account as its sender, and a command   *)
(* whose chat id did not resolve adds none.                                *)
C20_MarksOnlyIncoming ==
    \A c \in Conns :
        cmd[c].at # "none" =>
            /\ MarkedBy(c) \subseteq {KeyOf(m[1], m[2]) : m \in cmd[c].incoming}
            /\ \A r \in BagToSet(View(c)) : r.sender_aci # my_uuid
            /\ (\A i \in 1..Len(cmd[c].chat_ids) :
                   cmd[c].chat_ids[i] \in Unresolved)
                  => MarkedBy(c) = {}

\* the command on a group chat has added records under two senders
C20_Witness ==
    \E c \in Conns :
        /\ cmd[c].result = "Ok"
        /\ Len(cmd[c].chat_ids) >= 1
        /\ cmd[c].chat_ids[1] = Hex64
        /\ \E k1, k2 \in MarkedBy(c) : k1[1] # k2[1]

(* C21: messages_marked is the number of records added.  When              *)
(* cmd_mark_read has returned Ok, with no other process writing meanwhile, *)
(* total_messages equals the number of keys that got their record since    *)
(* the command started.                                                    *)
C21_MarkedEqualsAdded ==
    \A c \in Conns :
        cmd[c].result = "Ok" =>
            cmd[c].total_messages = Cardinality(MarkedBy(c))

----------------------------------------------------------------------------
(* Properties of the timestamp conversion *)

(* C22: the conversion of the u64 timestamp to the stored i64 is the same  *)
(* on insert and on lookup, and injective.  After mark_as_read of any u64  *)
(* timestamp succeeded, those of 2^(TsBits-1) and above included, is_read  *)
(* of that sender and timestamp answers true and the stored timestamp is   *)
(* an i64; is_read of the sender and any other u64 timestamp answers what  *)
(* it answered before the call; and two distinct u64 timestamps of one     *)
(* sender never have the same stored key.                                  *)
C22_CastInjective ==
    \A c \in Conns :
        (Returned(c, "mark_as_read") /\ ret[c].kind = "Ok") =>
            LET s == call[c].args.sender_aci
                t == call[c].args.timestamp
            IN /\ ReadsAsRead(table, s, t)
               /\ \A r \in BagToSet(table) :
                     r.timestamp \in -(2 ^ (TsBits - 1))..(2 ^ (TsBits - 1) - 1)
               /\ \A t2 \in U64 \ {t} :
                     /\ KeyOf(s, t2) # KeyOf(s, t)
                     /\ ReadsAsRead(table, s, t2) <=> ReadsAsRead(before[c], s, t2)

\* two timestamps of one sender, one below 2^(TsBits-1) and one that wraps
\* to a negative stored value, have their records
C22_Witness ==
    \E c \in Conns :
        /\ Returned(c, "mark_as_read")
        /\ ret[c].kind = "Ok"
        /\ call[c].args.timestamp >= 2 ^ (TsBits - 1)
        /\ \E r1, r2 \in BagToSet(table) :
              /\ r1.sender_aci = call[c].args.sender_aci
              /\ r2.sender_aci = call[c].args.sender_aci
              /\ r1.timestamp < 0
              /\ r2.timestamp > 0

====
